---- MODULE Spec2Model ----
(***************************************************************************)
(* Model of the vision chat: the Chat component (app/components/chat.tsx)  *)
(* and the proxy route POST /api/assistants/vision                         *)
(* (app/api/assistants/vision/route.ts).                                   *)
(*                                                                         *)
(* JavaScript strings are modelled as sequences of tokens: "" is << >>,    *)
(* a whitespace character is the token " ", and a fixed literal of the     *)
(* source is one token.  null and undefined are reserved one-token values. *)
(***************************************************************************)
EXTENDS Integers, Sequences, FiniteSets, TLC

\* ------------------------------------------------------------------ bounds
MaxSubmits == 2
MaxSelects == 2
MaxDirect == 2

\* --------------------------------------------------------------- JS values
EmptyStr == << >>
Null == <<"<null>">>
Undefined == <<"<undefined>">>

Falsy(v) == v \in {EmptyStr, Null, Undefined}

\* a || b
OrElse(a, b) == IF Falsy(a) THEN b ELSE a

RECURSIVE TrimStart(_)
TrimStart(s) ==
    IF s # << >> /\ Head(s) = " " THEN TrimStart(Tail(s)) ELSE s

RECURSIVE TrimEnd(_)
TrimEnd(s) ==
    IF s # << >> /\ s[Len(s)] = " " THEN TrimEnd(SubSeq(s, 1, Len(s) - 1)) ELSE s

\* String.prototype.trim
Trim(s) == TrimEnd(TrimStart(s))

\* String.prototype.includes, on token sequences
Includes(msg, marker) == \E i \in DOMAIN msg : msg[i] = marker

\* ------------------------------------------------------------------ base64
\* A base64 string: n data characters followed by pad '=' characters, encoding
\* the bytes of content src (0: no bytes).
EmptyB64 == [n |-> 0, pad |-> 0, src |-> 0]

\* FileReader.readAsDataURL's base64 payload for `size` bytes of content src
Base64Encode(size, src) ==
    IF size = 0 THEN EmptyB64
    ELSE [n |-> (4 * size + 2) \div 3, pad |-> (3 - (size % 3)) % 3, src |-> src]

\* Buffer.from(s, 'base64').length
DecodedLength(b) == (b.n * 3) \div 4

\* ------------------------------------------------------------------- files
\* 20 * 1024 * 1024, the limit of handleImageSelect
MaxImageBytes == 20971520

AllowedTypes == {"image/jpeg", "image/png", "image/webp", "image/gif"}

NoFile == [id |-> 0, size |-> 0, type |-> ""]

Files ==
    { [id |-> 1, size |-> 0, type |-> "image/png"],
      [id |-> 2, size |-> MaxImageBytes, type |-> "image/gif"],
      [id |-> 3, size |-> MaxImageBytes + 1, type |-> "image/jpeg"],
      [id |-> 4, size |-> 5, type |-> "image/bmp"] }

\* data URLs: "data:<mime>;base64,<data>"; "" and null are the two other
\* values a preview or a reader result can have in the program
EmptyURL == [mime |-> "", data |-> EmptyB64]
NullURL == [mime |-> "<null>", data |-> EmptyB64]
UndefinedURL == [mime |-> "<undefined>", data |-> EmptyB64]

DataURL(f) == [mime |-> f.type, data |-> Base64Encode(f.size, f.id)]

TruthyURL(u) == u \notin {EmptyURL, NullURL, UndefinedURL}

\* reader.result?.toString().split(',')[1]
Base64Part(result) == IF result = NullURL THEN EmptyB64 ELSE result.data

\* a check of the read result that never fails
NoBase64_Never(b) == FALSE

\* !base64Image
NoBase64(b) == b.n + b.pad = 0

\* the results a FileReader can deliver at loadend: the data URL, or null
\* after a read error
ReadResults(f) == {DataURL(f), NullURL}

\* ------------------------------------------------------------------- texts
Texts == { << >>, <<" ">>, <<"hi">> }

DefaultQuestion == <<"What is in this image?">>

SizeError == <<"Image size must be less than 20MB">>
FileTypeError == <<"Only JPEG, PNG, WEBP, and non-animated GIF files are supported">>

\* ------------------------------------------------------------------- state
VARIABLES
    userInput,       \* useState("") : text of the input field
    messages,        \* useState([]) : the transcript
    isLoading,       \* useState(false)
    selectedImage,   \* useState(null) : the selected file, NoFile for null
    imagePreview,    \* useState("") : data URL of the preview
    error,           \* useState("") : the visible error
    previewReaders,  \* FileReaders of handleImageSelect still reading, per file id
    subs,            \* the submissions, in the order of their Submit: what the
                     \* callback closes over, how far it is, and what it threw
    reqs,            \* the HTTP requests to the proxy, by request id
    nSelects,        \* number of file selections so far
    nDirect          \* number of requests sent by other clients so far

vars ==
    << userInput, messages, isLoading, selectedImage, imagePreview, error,
       previewReaders, subs, reqs, nSelects, nDirect >>

uiVars ==
    << userInput, messages, isLoading, selectedImage, imagePreview, error,
       previewReaders, subs, nSelects >>

FileIds == {f.id : f \in Files}

FileById(i) == CHOOSE f \in Files : f.id = i

ReqIds == 1 .. (MaxSubmits + MaxDirect)

\* ---------------------------------------------------------------- requests
NoResponse == [status |-> 0, result |-> Undefined, error |-> Undefined]

NoBody ==
    [parse |-> "none", hasImage |-> FALSE, imageBase64 |-> EmptyB64,
     question |-> Undefined]

\* no upstream call has returned
NoOutcome == [kind |-> "none", shape |-> "", content |-> Undefined,
              thrown |-> [isError |-> FALSE, message |-> Undefined]]

NoRequest ==
    [pc |-> "idle", body |-> NoBody, upstream |-> << >>, outcome |-> NoOutcome,
     response |-> NoResponse]

\* JSON.stringify({ imageBase64, question }) sent by fetch
FetchBody(base64Image, question) ==
    [parse |-> "ok", hasImage |-> TRUE, imageBase64 |-> base64Image,
     question |-> question]

\* ---------------------------------------------------------------- messages
UserImageMessage(s, input, preview) ==
    [role |-> "user", text |-> OrElse(input, DefaultQuestion),
     imageUrl |-> preview, sub |-> s]

\* a text-only message that also carries the current preview
UserTextMessage_WithPreview(s, input) ==
    [role |-> "user", text |-> input, imageUrl |-> imagePreview, sub |-> s]

UserTextMessage(s, input) ==
    [role |-> "user", text |-> input, imageUrl |-> UndefinedURL, sub |-> s]

AssistantMessage(s, text) ==
    [role |-> "assistant", text |-> text, imageUrl |-> UndefinedURL, sub |-> s]

\* -------------------------------------------------------------------- Init
Init ==
    /\ userInput = EmptyStr
    /\ messages = << >>
    /\ isLoading = FALSE
    /\ selectedImage = NoFile
    /\ imagePreview = EmptyURL
    /\ error = EmptyStr
    /\ previewReaders = [i \in FileIds |-> 0]
    /\ subs = << >>
    /\ reqs = [r \in ReqIds |-> NoRequest]
    /\ nSelects = 0
    /\ nDirect = 0

\* ------------------------------------------------------------- UI handlers
\* onChange of the text input (disabled while loading)
SetUserInput(t) ==
    /\ ~isLoading
    /\ userInput' = t
    /\ UNCHANGED << messages, isLoading, selectedImage, imagePreview, error,
                    previewReaders, subs, reqs, nSelects, nDirect >>

\* a size check that also refuses a file of exactly the limit
SizeTooLarge_Inclusive(file) == file.size >= MaxImageBytes

\* file.size > 20 * 1024 * 1024
SizeTooLarge(file) == file.size > MaxImageBytes

\* ![...].includes(file.type)
TypeNotAllowed(file) == file.type \notin AllowedTypes

\* handleImageSelect, for a chosen file (the file input is disabled while loading)
handleImageSelect(file) ==
    /\ ~isLoading
    /\ nSelects < MaxSelects
    /\ nSelects' = nSelects + 1
    /\ IF SizeTooLarge(file)
       THEN /\ error' = SizeError
            /\ UNCHANGED << selectedImage, previewReaders >>
       ELSE IF TypeNotAllowed(file)
       THEN /\ error' = FileTypeError
            /\ UNCHANGED << selectedImage, previewReaders >>
       ELSE /\ selectedImage' = file
            /\ error' = EmptyStr
            /\ previewReaders' =
                   [previewReaders EXCEPT ![file.id] = previewReaders[file.id] + 1]
    /\ UNCHANGED << userInput, messages, isLoading, imagePreview, subs, reqs, nDirect >>

\* reader.onloadend of the preview reader started by handleImageSelect, once
\* the file has been read: setImagePreview(reader.result).  Read errors of the
\* preview reader and rejected fetches are not among the inputs enumerated.
PreviewLoadEnd(i) ==
    /\ previewReaders[i] > 0
    /\ previewReaders' = [previewReaders EXCEPT ![i] = previewReaders[i] - 1]
    /\ imagePreview' = DataURL(FileById(i))
    /\ UNCHANGED << userInput, messages, isLoading, selectedImage, error, subs,
                    reqs, nSelects, nDirect >>

\* onClick of the Clear button, rendered when imagePreview is truthy
ClearImage ==
    /\ TruthyURL(imagePreview)
    /\ selectedImage' = NoFile
    /\ imagePreview' = EmptyURL
    /\ UNCHANGED << userInput, messages, isLoading, error, previewReaders, subs,
                    reqs, nSelects, nDirect >>

\* The value of isLoading when handleSubmit returns: setIsLoading(true) at its
\* start, setIsLoading(false) in its finally block, which runs as soon as the
\* reader has been started (the read and the fetch are not awaited).
LoadingAfterSubmit == FALSE

\* a handler without the early return
NothingToSubmit_Never == FALSE

\* !userInput.trim() && !selectedImage
NothingToSubmit == Trim(userInput) = EmptyStr /\ selectedImage = NoFile

\* handleSubmit (the form's submit button is disabled while loading)
handleSubmit ==
    /\ ~isLoading
    /\ Len(subs) < MaxSubmits
    /\ IF NothingToSubmit
       THEN UNCHANGED vars
       ELSE LET s == Len(subs) + 1 IN
            /\ isLoading' = LoadingAfterSubmit
            /\ error' = EmptyStr
            /\ subs' = Append(subs,
                   [input |-> userInput, image |-> selectedImage,
                    preview |-> imagePreview, thrown |-> EmptyStr,
                    phase |-> IF selectedImage # NoFile THEN "reading" ELSE "text"])
            /\ messages' =
                   IF Trim(userInput) # EmptyStr
                   THEN Append(messages, UserTextMessage(s, userInput))
                   ELSE messages
            /\ userInput' = EmptyStr
            /\ UNCHANGED << selectedImage, imagePreview, previewReaders, reqs,
                            nSelects, nDirect >>

\* reader.onloadend of the reader started by handleSubmit, up to the fetch.
\* A throw here rejects the promise of the async callback; nothing catches it.
SubmitLoadEnd(s, result) ==
    /\ s \in DOMAIN subs
    /\ subs[s].phase = "reading"
    /\ result \in ReadResults(subs[s].image)
    /\ LET base64Image == Base64Part(result) IN
       IF NoBase64(base64Image)
       THEN /\ subs' = [subs EXCEPT ![s].phase = "readFailed",
                                     ![s].thrown = <<"Failed to process image">>]
            /\ UNCHANGED << messages, reqs >>
       ELSE /\ messages' = Append(messages,
                   UserImageMessage(s, subs[s].input, subs[s].preview))
            /\ reqs' = [reqs EXCEPT ![s] =
                   [NoRequest EXCEPT
                       !.pc = "sent",
                       !.body = FetchBody(base64Image,
                                          OrElse(subs[s].input, DefaultQuestion))]]
            /\ subs' = [subs EXCEPT ![s].phase = "fetching"]
    /\ UNCHANGED << userInput, isLoading, selectedImage, imagePreview, error,
                    previewReaders, nSelects, nDirect >>

\* a client that takes every response for a success
ResponseOk_Always(response) == TRUE

\* response.ok
ResponseOk(response) == response.status \in 200 .. 299

\* errorData.error || 'Failed to analyze image'
FailureMessage(response) == OrElse(response.error, <<"Failed to analyze image">>)

\* a success path that forgets setImagePreview("")
SuccessUpdate_KeepsPreview(s, data) ==
    /\ messages' = Append(messages, AssistantMessage(s, data.result))
    /\ selectedImage' = NoFile
    /\ imagePreview' = imagePreview

\* the state updates of reader.onloadend after a response that is ok
SuccessUpdate(s, data) ==
    /\ messages' = Append(messages, AssistantMessage(s, data.result))
    /\ selectedImage' = NoFile
    /\ imagePreview' = EmptyURL

\* the rest of reader.onloadend once fetch has resolved with the proxy's response
FetchResolve(s) ==
    /\ s \in DOMAIN subs
    /\ subs[s].phase = "fetching"
    /\ reqs[s].pc = "responded"
    /\ IF ~ResponseOk(reqs[s].response)
       THEN /\ subs' = [subs EXCEPT ![s].phase = "httpFailed",
                                     ![s].thrown = FailureMessage(reqs[s].response)]
            /\ UNCHANGED << messages, selectedImage, imagePreview >>
       ELSE /\ SuccessUpdate(s, reqs[s].response)
            /\ subs' = [subs EXCEPT ![s].phase = "done"]
    /\ UNCHANGED << userInput, isLoading, error, previewReaders, reqs, nSelects,
                    nDirect >>

\* ------------------------------------------------------------------- proxy
ContextMarker == "maximum context length"
KeyMarker == "invalid_api_key"
RateMarker == "rate_limit_exceeded"

\* NextResponse.json(body, { status }), status 200 when none is given
JsonResult(result) == [status |-> 200, result |-> result, error |-> Undefined]
JsonError(status, text) == [status |-> status, result |-> Undefined, error |-> text]

\* a thrown value: an Error with a message, or something that is no Error
ErrorOf(message) == [isError |-> TRUE, message |-> message]
NonError == [isError |-> FALSE, message |-> Undefined]

\* a catch block that tries "rate_limit_exceeded" first
CatchResponse_RateFirst(thrown) ==
    IF thrown.isError
    THEN IF Includes(thrown.message, RateMarker)
         THEN JsonError(429, <<"Rate limit exceeded">>)
         ELSE IF Includes(thrown.message, ContextMarker)
         THEN JsonError(400, <<"Image is too large or complex to process">>)
         ELSE IF Includes(thrown.message, KeyMarker)
         THEN JsonError(401, <<"Invalid API key">>)
         ELSE JsonError(500, thrown.message)
    ELSE JsonError(500, <<"Failed to analyze the image">>)

\* the catch block of POST
CatchResponse(thrown) ==
    IF thrown.isError
    THEN IF Includes(thrown.message, ContextMarker)
         THEN JsonError(400, <<"Image is too large or complex to process">>)
         ELSE IF Includes(thrown.message, KeyMarker)
         THEN JsonError(401, <<"Invalid API key">>)
         ELSE IF Includes(thrown.message, RateMarker)
         THEN JsonError(429, <<"Rate limit exceeded">>)
         ELSE JsonError(500, thrown.message)
    ELSE JsonError(500, <<"Failed to analyze the image">>)

\* !imageBase64
ImageMissing(body) == ~body.hasImage \/ NoBase64(body.imageBase64)

\* 20 * 1024 * 1024, the limit of the route
MaxPayloadBytes == 20971520

\* a route that also refuses a payload of exactly the limit
PayloadTooLarge_Inclusive(body) == DecodedLength(body.imageBase64) >= MaxPayloadBytes

\* sizeInBytes > 20 * 1024 * 1024
PayloadTooLarge(body) == DecodedLength(body.imageBase64) > MaxPayloadBytes

\* what req.json() and the destructuring throw, for a body that is no JSON
\* text or is the JSON value null
ParseError(body) ==
    IF body.parse = "syntax"
    THEN ErrorOf(<<"Unexpected token">>)
    ELSE ErrorOf(<<"Cannot destructure property 'imageBase64'">>)

\* a route that asks the default question instead of the one it was sent
UpstreamCall_DefaultQuestion(body) ==
    [model |-> "gpt-4o-mini",
     text |-> DefaultQuestion,
     url |-> [mime |-> "image/jpeg", data |-> body.imageBase64],
     detail |-> "auto",
     max_tokens |-> 300]

\* the argument of openai.chat.completions.create
UpstreamCall(body) ==
    [model |-> "gpt-4o-mini",
     text |-> body.question,
     url |-> [mime |-> "image/jpeg", data |-> body.imageBase64],
     detail |-> "auto",
     max_tokens |-> 300]

\* POST from its start to the await of the upstream call, or to its response
\* when it returns before that
PostReceive(r) ==
    /\ reqs[r].pc = "sent"
    /\ LET body == reqs[r].body IN
       IF body.parse # "ok"
       THEN reqs' = [reqs EXCEPT ![r].pc = "responded",
                                 ![r].response = CatchResponse(ParseError(body))]
       ELSE IF ImageMissing(body)
       THEN reqs' = [reqs EXCEPT ![r].pc = "responded",
                                 ![r].response = JsonError(400, <<"Image data not provided">>)]
       ELSE IF PayloadTooLarge(body)
       THEN reqs' = [reqs EXCEPT ![r].pc = "responded",
                                 ![r].response = JsonError(400, <<"Image size exceeds 20MB limit">>)]
       ELSE reqs' = [reqs EXCEPT ![r].pc = "upstream",
                                 ![r].upstream = Append(@, UpstreamCall(body))]
    /\ UNCHANGED << uiVars, nDirect >>

\* Outcomes of the upstream call: a completion (with no first choice, a first
\* choice without message, or a first choice with some message content), or a
\* thrown value.
Completion(shape, content) ==
    [kind |-> "completion", shape |-> shape, content |-> content, thrown |-> NonError]

Thrown(t) ==
    [kind |-> "throw", shape |-> "", content |-> Undefined, thrown |-> t]

MsgTokens == {ContextMarker, KeyMarker, RateMarker, "timeout"}

ErrorMessages ==
    {<< >>} \cup {<<a>> : a \in MsgTokens} \cup {<<a, b>> : a \in MsgTokens, b \in MsgTokens}

Contents == {Null, Undefined, EmptyStr, <<"X">>, <<"Y">>}

Outcomes ==
    {Completion("nochoice", Undefined), Completion("nomessage", Undefined)}
        \cup {Completion("content", c) : c \in Contents}
        \cup {Thrown(ErrorOf(m)) : m \in ErrorMessages}
        \cup {Thrown(NonError)}

UIOutcomes ==
    {Completion("content", <<"X">>), Thrown(ErrorOf(<<RateMarker>>))}

\* a route without the check of the result
AfterUpstream_NoResultCheck(o) ==
    IF o.kind = "throw"
    THEN CatchResponse(o.thrown)
    ELSE IF o.shape = "nochoice"
    THEN CatchResponse(ErrorOf(<<"Cannot read properties of undefined (reading 'message')">>))
    ELSE IF o.shape = "nomessage"
    THEN CatchResponse(ErrorOf(<<"Cannot read properties of undefined (reading 'content')">>))
    ELSE JsonResult(o.content)

\* POST from the return of the upstream call: completion.choices[0].message.content,
\* the check of the result, and the catch block
AfterUpstream(o) ==
    IF o.kind = "throw"
    THEN CatchResponse(o.thrown)
    ELSE IF o.shape = "nochoice"
    THEN CatchResponse(ErrorOf(<<"Cannot read properties of undefined (reading 'message')">>))
    ELSE IF o.shape = "nomessage"
    THEN CatchResponse(ErrorOf(<<"Cannot read properties of undefined (reading 'content')">>))
    ELSE IF Falsy(o.content)
    THEN CatchResponse(ErrorOf(<<"No response content from OpenAI">>))
    ELSE JsonResult(o.content)

\* a route that keeps a module-level count of the requests it has answered
\* and refuses every request after the first
ResumeResponse_Throttled(r, o) ==
    IF \E q \in ReqIds : q # r /\ reqs[q].pc = "responded"
    THEN JsonError(429, <<"Rate limit exceeded">>)
    ELSE AfterUpstream(o)

\* the response POST returns for the upstream outcome o of request r
ResumeResponse(r, o) == AfterUpstream(o)

PostResume(r, o) ==
    /\ reqs[r].pc = "upstream"
    /\ reqs' = [reqs EXCEPT ![r].pc = "responded",
                            ![r].response = ResumeResponse(r, o),
                            ![r].outcome = o]
    /\ UNCHANGED << uiVars, nDirect >>

\* ------------------------------------------------------ other HTTP clients
DirectSizes == {MaxPayloadBytes, MaxPayloadBytes + 1}

DirectBodies ==
    {[parse |-> "syntax", hasImage |-> FALSE, imageBase64 |-> EmptyB64, question |-> Undefined],
     [parse |-> "null", hasImage |-> FALSE, imageBase64 |-> EmptyB64, question |-> Undefined],
     [parse |-> "ok", hasImage |-> FALSE, imageBase64 |-> EmptyB64, question |-> <<"hi">>],
     [parse |-> "ok", hasImage |-> TRUE, imageBase64 |-> EmptyB64, question |-> <<"hi">>]}
    \cup {[parse |-> "ok", hasImage |-> TRUE, imageBase64 |-> Base64Encode(n, 9), question |-> <<"hi">>] :
              n \in DirectSizes}
    \cup {[parse |-> "ok", hasImage |-> TRUE, imageBase64 |-> Base64Encode(1, 9), question |-> Undefined]}

\* a client other than the Chat component posts a body to the route
DirectPost(body) ==
    /\ nDirect < MaxDirect
    /\ nDirect' = nDirect + 1
    /\ reqs' = [reqs EXCEPT ![MaxSubmits + nDirect + 1] =
                   [NoRequest EXCEPT !.pc = "sent", !.body = body]]
    /\ UNCHANGED uiVars

\* ---------------------------------------------------------- specifications
Next ==
    \/ \E t \in Texts : SetUserInput(t)
    \/ \E f \in Files : handleImageSelect(f)
    \/ \E i \in FileIds : PreviewLoadEnd(i)
    \/ ClearImage
    \/ handleSubmit
    \/ \E s \in 1 .. MaxSubmits : \E result \in {DataURL(f) : f \in Files} \cup {NullURL} :
           SubmitLoadEnd(s, result)
    \/ \E s \in 1 .. MaxSubmits : FetchResolve(s)
    \/ \E r \in ReqIds : PostReceive(r)
    \/ \E r \in ReqIds : \E o \in UIOutcomes : PostResume(r, o)

Spec == Init /\ [][Next]_vars

ProxyNext ==
    \/ \E body \in DirectBodies : DirectPost(body)
    \/ \E r \in ReqIds : PostReceive(r)
    \/ \E r \in ReqIds : \E o \in Outcomes : PostResume(r, o)

ProxySpec == Init /\ [][ProxyNext]_vars

\* ------------------------------------------------------------------ claims
InFlight(s) == subs[s].phase \in {"reading", "fetching"}

Is2xx(response) == response.status >= 200 /\ response.status <= 299

IsPrefix(a, b) == Len(a) <= Len(b) /\ SubSeq(b, 1, Len(a)) = a

AssistantIndexes(s) ==
    {j \in DOMAIN messages : messages[j].role = "assistant" /\ messages[j].sub = s}

\* C1: at most one submission has a file read or proxy call started and not
\* yet settled.
C1_AtMostOneInFlight ==
    Cardinality({s \in DOMAIN subs : InFlight(s)}) <= 1

\* C2: while a submission's file read or proxy call has not settled, isLoading
\* is true (so no further Submit or Select image can be performed).
C2_LoadingWhileInFlight ==
    \A s \in DOMAIN subs : InFlight(s) => isLoading

\* C3: when a submission with an attachment fails (read error, empty base64
\* result, non-2xx response), the failure message becomes the visible error
\* and the attachment and the preview are left unchanged.
C3_FailureShown ==
    [][\A s \in DOMAIN subs :
          (InFlight(s) /\ subs'[s].phase \in {"readFailed", "httpFailed"}) =>
              /\ error' = subs'[s].thrown
              /\ error' # EmptyStr
              /\ selectedImage' = selectedImage
              /\ imagePreview' = imagePreview]_vars

\* C4: once the proxy call of a submission with an attachment has been issued
\* (so before it resolves), the user message with the local preview is in the
\* transcript; an assistant message of a submission exists only after a 2xx
\* response to it and follows that user message; a failed read or a non-2xx
\* response leaves no assistant message.
C4_MessageOrder ==
    \A s \in DOMAIN subs :
        /\ reqs[s].pc # "idle" =>
               \E i \in DOMAIN messages :
                   /\ messages[i].role = "user" /\ messages[i].sub = s
                   /\ messages[i].imageUrl = subs[s].preview
        /\ \A j \in AssistantIndexes(s) :
               /\ reqs[s].pc = "responded" /\ Is2xx(reqs[s].response)
               /\ \E i \in 1 .. (j - 1) :
                      /\ messages[i].role = "user" /\ messages[i].sub = s
                      /\ messages[i].imageUrl = subs[s].preview
        /\ (subs[s].phase \in {"readFailed", "httpFailed", "text"} \/ ~Is2xx(reqs[s].response)) =>
               AssistantIndexes(s) = {}

C4_Witness ==
    \E s \in DOMAIN subs, t \in DOMAIN subs :
        /\ subs[s].phase = "done" /\ AssistantIndexes(s) # {}
        /\ subs[t].phase = "httpFailed"

\* C5: every step leaves the transcript a prefix of the new transcript, and
\* the user messages of two submissions are in the order of their Submits.
SubmissionOrder ==
    \A i \in DOMAIN messages, j \in DOMAIN messages :
        (/\ messages[i].role = "user" /\ messages[j].role = "user"
         /\ messages[i].sub < messages[j].sub) => i < j

C5_AppendOnlyInSubmissionOrder ==
    [][IsPrefix(messages, messages') /\ SubmissionOrder']_vars

\* C6: the step that handles a 2xx response with result X to a submission
\* appends one assistant message with text X, which is the only assistant
\* message of that submission, and leaves attachment and preview empty.
C6_SuccessAppendsAndClears ==
    [][\A s \in DOMAIN subs :
          (/\ subs[s].phase = "fetching" /\ subs'[s].phase # "fetching"
           /\ Is2xx(reqs[s].response)) =>
              /\ Len(messages') = Len(messages) + 1
              /\ IsPrefix(messages, messages')
              /\ messages'[Len(messages')].role = "assistant"
              /\ messages'[Len(messages')].text = reqs[s].response.result
              /\ \A j \in DOMAIN messages :
                     ~(messages[j].role = "assistant" /\ messages[j].sub = s)
              /\ selectedImage' = NoFile
              /\ imagePreview' = EmptyURL]_vars

C6_Witness ==
    \E s \in DOMAIN subs :
        /\ subs[s].phase = "done"
        /\ \E j \in DOMAIN messages :
               messages[j].role = "assistant" /\ messages[j].text = <<"X">>
        /\ subs[s].preview # EmptyURL
        /\ selectedImage = NoFile /\ imagePreview = EmptyURL

\* C7: Select image of a file larger than 20 MiB or of a type outside the four
\* allowed ones sets an error, leaves attachment and preview as they were and
\* starts no read and no request; a file of exactly 20 MiB and an allowed type
\* becomes the attachment.
C7_Rejected(f) ==
    \/ f.size > 20 * 1024 * 1024
    \/ f.type \notin {"image/jpeg", "image/png", "image/webp", "image/gif"}

C7_SelectValidation ==
    [][\A f \in Files :
          handleImageSelect(f) =>
              /\ C7_Rejected(f) =>
                     /\ error' # EmptyStr
                     /\ selectedImage' = selectedImage
                     /\ imagePreview' = imagePreview
                     /\ reqs' = reqs
                     /\ previewReaders' = previewReaders
              /\ (f.size = 20 * 1024 * 1024 /\ ~C7_Rejected(f)) =>
                     (selectedImage' = f /\ error' = EmptyStr)]_vars

C7_Witness ==
    /\ error = FileTypeError
    /\ selectedImage # NoFile
    /\ selectedImage.size = 20 * 1024 * 1024

\* C8: a request (with a JSON object as body) whose imageBase64 is missing or
\* decodes to more than 20 MiB gets status 400 with an error field and no
\* upstream call; a payload of exactly 20 MiB passes validation, that is, the
\* upstream call is made.
C8_Handled(r) == reqs[r].pc \in {"upstream", "responded"}

C8_ValidationShortCircuits ==
    \A r \in ReqIds :
        (C8_Handled(r) /\ reqs[r].body.parse = "ok") =>
            LET body == reqs[r].body
                size == (body.imageBase64.n * 3) \div 4
            IN /\ (~body.hasImage \/ size > 20 * 1024 * 1024) =>
                      /\ reqs[r].pc = "responded"
                      /\ reqs[r].response.status = 400
                      /\ ~Falsy(reqs[r].response.error)
                      /\ reqs[r].upstream = << >>
               /\ (body.hasImage /\ size = 20 * 1024 * 1024) =>
                      Len(reqs[r].upstream) = 1

C8_Witness ==
    \E r \in ReqIds, q \in ReqIds :
        /\ reqs[r].pc = "responded" /\ reqs[r].body.hasImage
        /\ DecodedLength(reqs[r].body.imageBase64) = MaxPayloadBytes + 1
        /\ reqs[q].pc = "upstream"
        /\ DecodedLength(reqs[q].body.imageBase64) = MaxPayloadBytes

\* C9 as stated: each of the three substrings decides the status by itself,
\* and any other caught error gives 500 with the literal message or the
\* generic fallback.
C9_Caught(r) == reqs[r].pc = "responded" /\ reqs[r].outcome.kind = "throw"

C9_Has(r, marker) ==
    /\ reqs[r].outcome.thrown.isError
    /\ \E i \in DOMAIN reqs[r].outcome.thrown.message :
           reqs[r].outcome.thrown.message[i] = marker

C9_Other(r) ==
    /\ ~C9_Has(r, "rate_limit_exceeded")
    /\ ~C9_Has(r, "invalid_api_key")
    /\ ~C9_Has(r, "maximum context length")

C9_OtherGives500(r) ==
    C9_Other(r) =>
        /\ reqs[r].response.status = 500
        /\ reqs[r].response.error =
               (IF reqs[r].outcome.thrown.isError
                THEN reqs[r].outcome.thrown.message
                ELSE <<"Failed to analyze the image">>)

C9_StatusTable ==
    \A r \in ReqIds :
        C9_Caught(r) =>
            /\ C9_Has(r, "rate_limit_exceeded") =>
                   (reqs[r].response.status = 429
                    /\ reqs[r].response.error = <<"Rate limit exceeded">>)
            /\ C9_Has(r, "invalid_api_key") => reqs[r].response.status = 401
            /\ C9_Has(r, "maximum context length") => reqs[r].response.status = 400
            /\ C9_OtherGives500(r)

\* C9 amended: the substrings are tried in the order "maximum context length"
\* (400), "invalid_api_key" (401), "rate_limit_exceeded" (429), the first one
\* contained in the message decides; any other caught error gives 500 with the
\* literal message or the generic fallback.
C9_StatusTableInOrder ==
    \A r \in ReqIds :
        C9_Caught(r) =>
            /\ C9_Has(r, "maximum context length") => reqs[r].response.status = 400
            /\ (C9_Has(r, "invalid_api_key") /\ ~C9_Has(r, "maximum context length")) =>
                   reqs[r].response.status = 401
            /\ (/\ C9_Has(r, "rate_limit_exceeded")
                /\ ~C9_Has(r, "invalid_api_key")
                /\ ~C9_Has(r, "maximum context length")) =>
                   (reqs[r].response.status = 429
                    /\ reqs[r].response.error = <<"Rate limit exceeded">>)
            /\ C9_OtherGives500(r)

C9_Witness ==
    \E r \in ReqIds, q \in ReqIds :
        /\ C9_Caught(r)
        /\ C9_Has(r, "rate_limit_exceeded") /\ C9_Has(r, "invalid_api_key")
        /\ reqs[r].response.status = 401
        /\ C9_Caught(q) /\ C9_Other(q) /\ reqs[q].outcome.thrown.isError
        /\ reqs[q].response.error = <<"timeout">>

\* C10: an upstream completion with no first choice, or with empty or absent
\* message content in its first choice, gets a 5xx response with an error
\* field, never a 200.
C10_NoContent(o) ==
    /\ o.kind = "completion"
    /\ \/ o.shape \in {"nochoice", "nomessage"}
       \/ o.content \in {<< >>, Null, Undefined}

C10_EmptyContentIs5xx ==
    \A r \in ReqIds :
        (reqs[r].pc = "responded" /\ C10_NoContent(reqs[r].outcome)) =>
            /\ reqs[r].response.status >= 500 /\ reqs[r].response.status <= 599
            /\ reqs[r].response.error \notin {<< >>, Null, Undefined}
            /\ reqs[r].response.result = Undefined

C10_Witness ==
    \E r \in ReqIds, q \in ReqIds :
        /\ reqs[r].pc = "responded" /\ reqs[q].pc = "responded"
        /\ reqs[r].outcome = Completion("content", EmptyStr)
        /\ reqs[q].outcome = Completion("nochoice", Undefined)
        /\ reqs[r].response.status = 500 /\ reqs[q].response.status = 500

\* C11: a request with imageBase64 present and a decoded size of at most
\* 20 MiB whose upstream call returns non-empty content X gets status 200 with
\* result X and no error field, after exactly one upstream call whose text is
\* the question of the request, verbatim.
C11_Succeeds(r) ==
    /\ reqs[r].pc = "responded"
    /\ reqs[r].body.parse = "ok" /\ reqs[r].body.hasImage
    /\ reqs[r].body.imageBase64.n > 0
    /\ (reqs[r].body.imageBase64.n * 3) \div 4 <= 20 * 1024 * 1024
    /\ reqs[r].outcome.kind = "completion" /\ reqs[r].outcome.shape = "content"
    /\ reqs[r].outcome.content \notin {<< >>, Null, Undefined}

C11_SuccessIs200 ==
    \A r \in ReqIds :
        C11_Succeeds(r) =>
            /\ reqs[r].response.status = 200
            /\ reqs[r].response.result = reqs[r].outcome.content
            /\ reqs[r].response.error = Undefined
            /\ Len(reqs[r].upstream) = 1
            /\ reqs[r].upstream[1].text = reqs[r].body.question

C11_Witness ==
    \E r \in ReqIds, q \in ReqIds :
        /\ C11_Succeeds(r) /\ C11_Succeeds(q)
        /\ reqs[r].body.question = <<"hi">> /\ reqs[r].response.result = <<"X">>
        /\ (reqs[r].body.imageBase64.n * 3) \div 4 = 20 * 1024 * 1024
        /\ reqs[q].body.question = Undefined /\ reqs[q].response.result = <<"Y">>

\* C16: the response to a request is determined by its own body and the
\* outcome of its own upstream call: under every interleaving of the requests,
\* two answered requests with equal bodies and equal upstream outcomes have
\* equal responses and made equal upstream calls.
C16_Stateless ==
    \A r \in ReqIds, q \in ReqIds :
        (/\ reqs[r].pc = "responded" /\ reqs[q].pc = "responded"
         /\ reqs[r].body = reqs[q].body
         /\ reqs[r].outcome = reqs[q].outcome) =>
            /\ reqs[r].response = reqs[q].response
            /\ reqs[r].upstream = reqs[q].upstream

C16_Witness ==
    \E r \in ReqIds, q \in ReqIds :
        /\ r # q
        /\ reqs[r].pc = "responded" /\ reqs[q].pc = "responded"
        /\ reqs[r].body = reqs[q].body
        /\ reqs[r].outcome = reqs[q].outcome
        /\ reqs[r].outcome.kind = "completion"
        /\ reqs[r].response.status = 200

\* C12: Submit with empty text (nothing but whitespace) and no attachment
\* changes neither the transcript, the attachment, the preview nor the error,
\* and starts no file read and no request.
C12_Blank(t) == \A i \in DOMAIN t : t[i] = " "

C12_EmptySubmitIsNoOp ==
    [][(handleSubmit /\ C12_Blank(userInput) /\ selectedImage = NoFile) =>
           /\ messages' = messages
           /\ selectedImage' = selectedImage
           /\ imagePreview' = imagePreview
           /\ error' = error
           /\ subs' = subs
           /\ reqs' = reqs
           /\ previewReaders' = previewReaders]_vars

C12_Witness ==
    /\ ENABLED handleSubmit
    /\ C12_Blank(userInput) /\ selectedImage = NoFile
    /\ error # EmptyStr
    /\ messages # << >>

\* C13: a Submit with non-blank text and no attachment has exactly one message
\* in the transcript, a user message with the submitted text and no image; it
\* has no assistant message and no request.
C13_MessagesOf(s) == {j \in DOMAIN messages : messages[j].sub = s}

C13_TextOnlySubmit ==
    \A s \in DOMAIN subs :
        subs[s].image = NoFile =>
            /\ ~C12_Blank(subs[s].input)
            /\ Cardinality(C13_MessagesOf(s)) = 1
            /\ \A j \in C13_MessagesOf(s) :
                   /\ messages[j].role = "user"
                   /\ messages[j].text = subs[s].input
                   /\ messages[j].imageUrl = UndefinedURL
            /\ reqs[s] = NoRequest

C13_Witness ==
    \E s \in DOMAIN subs :
        /\ subs[s].image = NoFile /\ subs[s].input = <<"hi">>
        /\ \E j \in DOMAIN messages : messages[j].sub = s /\ messages[j].text = <<"hi">>
        /\ TruthyURL(imagePreview)

\* C14: a Submit with an attachment and blank text (empty after trimming)
\* appends the user message with text "What is in this image?" and sends the
\* same string as the question of its request.
C14_Blank(t) == \A i \in DOMAIN t : t[i] = " "

C14_DefaultQuestion ==
    \A s \in DOMAIN subs :
        (/\ subs[s].image # NoFile /\ C14_Blank(subs[s].input)
         /\ subs[s].phase \in {"fetching", "done", "httpFailed"}) =>
            /\ \E j \in DOMAIN messages :
                   /\ messages[j].sub = s /\ messages[j].role = "user"
                   /\ messages[j].text = <<"What is in this image?">>
            /\ \A j \in DOMAIN messages :
                   (messages[j].sub = s /\ messages[j].role = "user") =>
                       messages[j].text = <<"What is in this image?">>
            /\ reqs[s].body.question = <<"What is in this image?">>

\* C15: every Submit of a non-empty input settles with the text input empty
\* and the loading flag cleared: in the state in which its flow has settled
\* (text only: the Submit itself; otherwise the end of the read or of the
\* handling of the response) userInput is "" and isLoading is false.
C15_SettledClean ==
    [][\A s \in DOMAIN subs' :
          (/\ ~(subs'[s].phase \in {"reading", "fetching"})
           /\ (s \notin DOMAIN subs \/ subs[s].phase \in {"reading", "fetching"})) =>
              (userInput' = << >> /\ isLoading' = FALSE)]_vars

\* C17: the UI sends a request only with a non-empty imageBase64: every
\* request of a submission carries base64 data, and a submission without
\* attachment or whose read gave no base64 data has sent none.
C17_OnlyWithImageData ==
    \A s \in DOMAIN subs :
        /\ reqs[s].pc # "idle" =>
               /\ subs[s].image # NoFile
               /\ reqs[s].body.hasImage
               /\ reqs[s].body.imageBase64.n > 0
               /\ reqs[s].body.imageBase64.src = subs[s].image.id
        /\ (subs[s].image = NoFile \/ subs[s].phase = "readFailed") =>
               reqs[s].pc = "idle"

C17_Witness ==
    \E s \in DOMAIN subs, t \in DOMAIN subs :
        /\ subs[s].phase = "readFailed" /\ subs[s].image.size = 0
        /\ subs[t].phase = "fetching" /\ reqs[t].pc # "idle"

\* C18: each Submit appends at most one user message: with an attachment the
\* single message with the preview (also when the text is not blank), and a
\* text-only user message only when there is no attachment.
C18_OneUserMessagePerSubmit ==
    \A s \in DOMAIN subs :
        /\ Cardinality({j \in DOMAIN messages :
                            messages[j].sub = s /\ messages[j].role = "user"}) <= 1
        /\ subs[s].image # NoFile =>
               \A j \in DOMAIN messages :
                   (messages[j].sub = s /\ messages[j].role = "user") =>
                       messages[j].imageUrl = subs[s].preview

\* C19: a non-empty preview implies that an attachment is selected and that
\* the preview was computed from the selected file.
C19_PreviewOfSelected ==
    (imagePreview \notin {EmptyURL, NullURL, UndefinedURL}) =>
        /\ selectedImage # NoFile
        /\ imagePreview = [mime |-> selectedImage.type,
                           data |-> Base64Encode(selectedImage.size, selectedImage.id)]

\* C20: the imageUrl of the user message of a Submit with an attachment is
\* the preview of the file whose bytes are the imageBase64 of its request.
C20_MessageShowsSentFile ==
    \A s \in DOMAIN subs :
        reqs[s].pc # "idle" =>
            \A j \in DOMAIN messages :
                (messages[j].sub = s /\ messages[j].role = "user"
                 /\ messages[j].imageUrl # UndefinedURL) =>
                    /\ messages[j].imageUrl.data = reqs[s].body.imageBase64
                    /\ messages[j].imageUrl.mime = subs[s].image.type

====
